---------------------------- MODULE Spec2Model ----------------------------
(***************************************************************************)
(* Model of the in-memory bank ledger of examples/fastmcp/bank_data.py.    *)
(*                                                                         *)
(* The store is the pair of module globals _accounts (a dict from account  *)
(* id to Account) and _transaction_counter.  Every tool of the server is   *)
(* a synchronous function over that store; it is modelled by an operator   *)
(* that takes the store and the call's arguments and yields the store      *)
(* after the call together with the outcome the returned text reports,     *)
(* and by one action that applies that operator to the current store.      *)
(* The returned text is not part of the state: what a call reports in a    *)
(* given store is what its operator yields there.                          *)
(*                                                                         *)
(* Money is counted in whole cents.  Every amount enters the code as       *)
(* Decimal(str(amount)); on amounts with at most two decimals that is the  *)
(* exact decimal value, and Decimal addition, subtraction and comparison   *)
(* are exact far beyond the amounts used here.                             *)
(***************************************************************************)
EXTENDS Integers, Sequences, FiniteSets, TLC

VARIABLES
    accounts,             \* _accounts: account id -> Account
    transaction_counter,  \* _transaction_counter[0]
    issued,               \* history: the ids create_account has returned
    tally,                \* history: per open account, the amounts the calls moved
    creates,              \* history: the number of create_account calls made
    threads,              \* concurrent callers: where each is in its call, and its locals
    clients,              \* TechModelOAuthProvider._clients
    access_tokens,        \* TechModelOAuthProvider._access_tokens
    refresh_tokens,       \* TechModelOAuthProvider._refresh_tokens
    now,                  \* the clock (time.time(), datetime.now), in milliseconds
    registrations,        \* history: what the create_client calls returned and stored
    access_issues,        \* history: the access tokens issued and not revoked since
    auth_codes,           \* TechModelOAuthProvider._auth_codes
    redeemed              \* history: the codes validate_authorization_code has accepted

ledger_vars == <<accounts, transaction_counter, issued, tally>>
oauth_vars ==
    <<clients, access_tokens, refresh_tokens, now, registrations, access_issues,
      auth_codes, redeemed>>
vars == <<accounts, transaction_counter, issued, tally, creates, threads, oauth_vars>>

---------------------------------------------------------------------------
(* Bounds of the model and the inputs of the calls *)

MaxAccounts == 2    \* accounts open at the same time
MaxTxn == 3         \* transaction ids issued in one behaviour

MaxTimedTxn == MaxTxn + 3   \* transaction ids drawn in SpecTime
MaxCreates == 3      \* create_account calls counted in SpecCreates
MaxCalls == 1        \* calls each concurrent caller makes in SpecThreads
Callers == {1, 2}    \* the concurrent callers of SpecThreads

\* The OAuth demo provider.  Time is counted in milliseconds, the resolution
\* of the identifiers; Instants are the moments at which calls are made.
MaxIssued == 2       \* clients, access tokens and refresh tokens on record in SpecOAuth
MsPerSecond == 1000
ExpiresIn == 3600    \* seconds
Instants == {0, ExpiresIn * MsPerSecond, ExpiresIn * MsPerSecond + 1}
CodeExpiresIn == 600 \* seconds
CodeInstants == {0, CodeExpiresIn * MsPerSecond, CodeExpiresIn * MsPerSecond + 1}
FirstInstant == 0
ClientNames == {"Test Client", "Other Client"}
ClientIdArgs == {<<"test_client">>, <<"other_client">>}
RedirectUris == <<"http://localhost:8080/callback">>
RedirectUriArgs == {"http://localhost:8080/callback", "http://localhost:9090/callback"}
CodeChallenges == {"None", "challenge"}
CodeVerifiers == {"None", "verifier", "other verifier"}
Scopes == <<"mcp">>
NoResource == "None"

Names == {"Alice"}
Amounts == {1, 2}                    \* Field(gt=0), in cents
InitialDeposits == {0} \cup Amounts  \* Field(ge=0), in cents
Limits == {1, 2, 10}                 \* Field(ge=1, le=100), default 10

---------------------------------------------------------------------------
(* Identifiers: f"ACC{n:06d}" and f"TXN{n:06d}" as sequences of characters *)

IdWidth == 6

DigitChar(d) ==
    CASE d = 0 -> "0" [] d = 1 -> "1" [] d = 2 -> "2" [] d = 3 -> "3"
      [] d = 4 -> "4" [] d = 5 -> "5" [] d = 6 -> "6" [] d = 7 -> "7"
      [] d = 8 -> "8" [] d = 9 -> "9"

RECURSIVE DecimalDigits(_)
DecimalDigits(n) ==
    IF n < 10 THEN <<DigitChar(n)>>
    ELSE DecimalDigits(n \div 10) \o <<DigitChar(n % 10)>>

RECURSIVE ZeroPad(_, _)
ZeroPad(s, width) ==
    IF Len(s) >= width THEN s ELSE ZeroPad(<<"0">> \o s, width)

FormatId(prefix, n) == prefix \o ZeroPad(DecimalDigits(n), IdWidth)

generate_account_id(accts) ==
    FormatId(<<"A", "C", "C">>, Cardinality(DOMAIN accts) + 1)

\* Faulty variant of generate_transaction_id: the id is formatted before the
\* counter is advanced.
generate_transaction_id_stale(n) == FormatId(<<"T", "X", "N">>, n - 1)

\* The id of the transaction issued when the counter has just become n.
generate_transaction_id(n) == FormatId(<<"T", "X", "N">>, n)

---------------------------------------------------------------------------
(* Records *)

Transaction(id, account_id, amount, transaction_type, timestamp, description) ==
    [id |-> id, account_id |-> account_id, amount |-> amount,
     transaction_type |-> transaction_type, timestamp |-> timestamp,
     description |-> description]

\* datetime.now(timezone.utc): a reading of the clock.
datetime_now == now

Account(id, name, balance, transactions) ==
    [id |-> id, name |-> name, balance |-> balance, transactions |-> transactions]

NoId == <<>>
NoName == ""

\* The outcome a returned text reports: which message it is, and the account
\* id, holder name and numbers (amounts, balances, counts) it prints, in order.
Result(status, account_id, name, reported) ==
    [status |-> status, account_id |-> account_id, name |-> name,
     reported |-> reported]

\* The store after a call and the call's outcome.
Step(accts, counter, result) ==
    [accounts |-> accts, counter |-> counter, result |-> result]

\* dict item assignment and deletion
Put(accts, id, account) ==
    [k \in DOMAIN accts \cup {id} |-> IF k = id THEN account ELSE accts[k]]

Del(accts, id) == [k \in DOMAIN accts \ {id} |-> accts[k]]

---------------------------------------------------------------------------
(* Statements shared by the handlers *)

\* Faulty variant of CreditAccount: "=" written for "+=".
CreditAccountOverwrite(account, amount, transaction) ==
    [account EXCEPT !.balance = amount,
                    !.transactions = Append(@, transaction)]

\* account.balance += amount; account.transactions.append(transaction)
CreditAccount(account, amount, transaction) ==
    [account EXCEPT !.balance = @ + amount,
                    !.transactions = Append(@, transaction)]

\* Faulty variant of DebitAccount: the transaction is not appended to the log.
DebitAccountUnlogged(account, amount, transaction) ==
    [account EXCEPT !.balance = @ - amount]

\* account.balance -= amount; account.transactions.append(transaction)
DebitAccount(account, amount, transaction) ==
    [account EXCEPT !.balance = @ - amount,
                    !.transactions = Append(@, transaction)]

\* Faulty variants of InsufficientFunds: the check left out, and "<=" for "<".
InsufficientFundsUnchecked(balance, amount) == FALSE

InsufficientFundsOffByOne(balance, amount) == balance <= amount

\* if account.balance < amount: return "Error: Insufficient funds ..."
InsufficientFunds(balance, amount) == balance < amount

---------------------------------------------------------------------------
(* The tools *)

\* Faulty variant of create_account: the initial deposit is logged even when
\* it is zero.
create_account_always_logs(accts, counter, name, initial_deposit) ==
    LET account_id == generate_account_id(accts)
        counter1 == counter + 1
        transactions ==
            <<Transaction(generate_transaction_id(counter1), account_id,
                          initial_deposit, "deposit", datetime_now,
                          <<"Initial deposit">>)>>
        account == Account(account_id, name, initial_deposit, transactions)
    IN  Step(Put(accts, account_id, account), counter1,
             Result("created", account_id, NoName, <<account.balance>>))

create_account(accts, counter, name, initial_deposit) ==
    LET account_id == generate_account_id(accts)
        counter1 == IF initial_deposit > 0 THEN counter + 1 ELSE counter
        transactions ==
            IF initial_deposit > 0
            THEN <<Transaction(generate_transaction_id(counter1), account_id,
                               initial_deposit, "deposit", datetime_now,
                               <<"Initial deposit">>)>>
            ELSE <<>>
        account == Account(account_id, name, initial_deposit, transactions)
    IN  Step(Put(accts, account_id, account), counter1,
             Result("created", account_id, NoName, <<account.balance>>))

get_account_info(accts, counter, account_id) ==
    IF account_id \notin DOMAIN accts
    THEN Step(accts, counter, Result("not_found", account_id, NoName, <<>>))
    ELSE LET account == accts[account_id]
         IN  Step(accts, counter,
                  Result("info", account.id, account.name,
                         <<account.balance, Len(account.transactions)>>))

\* list_accounts and the bank://accounts resource report one line per stored
\* account: its id, name and balance.  The lines come in the store's insertion
\* order; the store is modelled as a function, so the lines are reported as a
\* set.
AccountLines(accts) ==
    {<<accts[id].id, accts[id].name, accts[id].balance>> : id \in DOMAIN accts}

list_accounts(accts, counter) ==
    IF DOMAIN accts = {}
    THEN Step(accts, counter, [status |-> "no_accounts", lines |-> {}])
    ELSE Step(accts, counter,
              [status |-> "account_list", lines |-> AccountLines(accts)])

\* transactions[-limit:] for limit >= 1: the last limit elements, or all of
\* them when there are fewer.
LastTransactionsFromFront(transactions, limit) ==
    SubSeq(transactions, 1,
           IF Len(transactions) < limit THEN Len(transactions) ELSE limit)

LastTransactions(transactions, limit) ==
    SubSeq(transactions,
           IF Len(transactions) < limit THEN 1 ELSE Len(transactions) - limit + 1,
           Len(transactions))

Reversed(s) == [i \in 1..Len(s) |-> s[Len(s) + 1 - i]]

Sign(transaction) ==
    IF transaction.transaction_type \in {"deposit", "transfer_in"}
    THEN "+" ELSE "-"

HistoryLine(transaction) ==
    [sign |-> Sign(transaction), amount |-> transaction.amount,
     description |-> transaction.description]

\* Faulty variant of get_transaction_history: the reported transactions are
\* taken out of the account's log.
get_transaction_history_consuming(accts, counter, account_id, limit) ==
    IF account_id \notin DOMAIN accts
    THEN Step(accts, counter,
              [status |-> "not_found", account_id |-> account_id])
    ELSE LET account == accts[account_id]
             transactions == LastTransactions(account.transactions, limit)
             kept == SubSeq(account.transactions, 1,
                            Len(account.transactions) - Len(transactions))
         IN  IF transactions = <<>>
             THEN Step(accts, counter,
                       [status |-> "no_transactions", account_id |-> account_id])
             ELSE Step(Put(accts, account_id,
                           [account EXCEPT !.transactions = kept]),
                       counter,
                       [status |-> "history", account_id |-> account_id,
                        lines |-> [i \in 1..Len(transactions) |->
                                      HistoryLine(Reversed(transactions)[i])],
                        balance |-> account.balance])

get_transaction_history(accts, counter, account_id, limit) ==
    IF account_id \notin DOMAIN accts
    THEN Step(accts, counter,
              [status |-> "not_found", account_id |-> account_id])
    ELSE LET account == accts[account_id]
             transactions == LastTransactions(account.transactions, limit)
         IN  IF transactions = <<>>
             THEN Step(accts, counter,
                       [status |-> "no_transactions", account_id |-> account_id])
             ELSE Step(accts, counter,
                       [status |-> "history", account_id |-> account_id,
                        lines |-> [i \in 1..Len(transactions) |->
                                      HistoryLine(Reversed(transactions)[i])],
                        balance |-> account.balance])

\* The bank:// resources.
list_all_accounts(accts, counter) ==
    IF DOMAIN accts = {}
    THEN Step(accts, counter, [status |-> "no_accounts", lines |-> {}])
    ELSE Step(accts, counter,
              [status |-> "accounts", lines |-> AccountLines(accts)])

get_account_resource(accts, counter, account_id) ==
    IF account_id \notin DOMAIN accts
    THEN Step(accts, counter, Result("not_found", account_id, NoName, <<>>))
    ELSE LET account == accts[account_id]
         IN  Step(accts, counter,
                  Result("account", account.id, account.name,
                         <<account.balance>>))

get_balance_resource(accts, counter, account_id) ==
    IF account_id \notin DOMAIN accts
    THEN Step(accts, counter, Result("balance", account_id, NoName, <<0>>))
    ELSE Step(accts, counter,
              Result("balance", account_id, NoName,
                     <<accts[account_id].balance>>))

\* Faulty variant of close_account: the balance is not looked at.
close_account_any_balance(accts, counter, account_id) ==
    IF account_id \notin DOMAIN accts
    THEN Step(accts, counter, Result("not_found", account_id, NoName, <<>>))
    ELSE Step(Del(accts, account_id), counter,
              Result("closed", account_id, NoName, <<>>))

\* Faulty variant of close_account: the account is reported closed but is
\* not taken out of the store.
close_account_keeps_entry(accts, counter, account_id) ==
    IF account_id \notin DOMAIN accts
    THEN Step(accts, counter, Result("not_found", account_id, NoName, <<>>))
    ELSE LET account == accts[account_id]
         IN  IF account.balance # 0
             THEN Step(accts, counter,
                       Result("non_zero_balance", NoId, NoName, <<account.balance>>))
             ELSE Step(accts, counter,
                       Result("closed", account_id, NoName, <<>>))

close_account(accts, counter, account_id) ==
    IF account_id \notin DOMAIN accts
    THEN Step(accts, counter, Result("not_found", account_id, NoName, <<>>))
    ELSE LET account == accts[account_id]
         IN  IF account.balance # 0
             THEN Step(accts, counter,
                       Result("non_zero_balance", NoId, NoName, <<account.balance>>))
             ELSE Step(Del(accts, account_id), counter,
                       Result("closed", account_id, NoName, <<>>))

\* Faulty variant of deposit: the message is built before the balance is
\* updated, so it reports the old balance.
deposit_reports_old_balance(accts, counter, account_id, amount, description) ==
    IF account_id \notin DOMAIN accts
    THEN Step(accts, counter, Result("not_found", account_id, NoName, <<>>))
    ELSE LET counter1 == counter + 1
             transaction == Transaction(generate_transaction_id(counter1),
                                        account_id, amount, "deposit", datetime_now,
                                        <<description>>)
             account == CreditAccount(accts[account_id], amount, transaction)
         IN  Step(Put(accts, account_id, account), counter1,
                  Result("deposited", account_id, NoName,
                         <<amount, accts[account_id].balance>>))

deposit(accts, counter, account_id, amount, description) ==
    IF account_id \notin DOMAIN accts
    THEN Step(accts, counter, Result("not_found", account_id, NoName, <<>>))
    ELSE LET counter1 == counter + 1
             transaction == Transaction(generate_transaction_id(counter1),
                                        account_id, amount, "deposit", datetime_now,
                                        <<description>>)
             account == CreditAccount(accts[account_id], amount, transaction)
         IN  Step(Put(accts, account_id, account), counter1,
                  Result("deposited", account_id, NoName,
                         <<amount, account.balance>>))

\* Faulty variant of withdraw: the transaction id is drawn before the
\* account is looked up, so a call on an unknown account uses up an id.
withdraw_id_before_lookup(accts, counter, account_id, amount, description) ==
    LET counter1 == counter + 1
    IN  IF account_id \notin DOMAIN accts
        THEN Step(accts, counter1, Result("not_found", account_id, NoName, <<>>))
        ELSE IF InsufficientFunds(accts[account_id].balance, amount)
        THEN Step(accts, counter,
                  Result("insufficient_funds", NoId, NoName,
                         <<accts[account_id].balance>>))
        ELSE LET transaction == Transaction(generate_transaction_id(counter1),
                                            account_id, amount, "withdrawal", datetime_now,
                                            <<description>>)
                 account == DebitAccount(accts[account_id], amount, transaction)
             IN  Step(Put(accts, account_id, account), counter1,
                      Result("withdrew", account_id, NoName,
                             <<amount, account.balance>>))

withdraw(accts, counter, account_id, amount, description) ==
    IF account_id \notin DOMAIN accts
    THEN Step(accts, counter, Result("not_found", account_id, NoName, <<>>))
    ELSE IF InsufficientFunds(accts[account_id].balance, amount)
    THEN Step(accts, counter,
              Result("insufficient_funds", NoId, NoName,
                     <<accts[account_id].balance>>))
    ELSE LET counter1 == counter + 1
             transaction == Transaction(generate_transaction_id(counter1),
                                        account_id, amount, "withdrawal", datetime_now,
                                        <<description>>)
             account == DebitAccount(accts[account_id], amount, transaction)
         IN  Step(Put(accts, account_id, account), counter1,
                  Result("withdrew", account_id, NoName,
                         <<amount, account.balance>>))

\* Faulty variant of TransferPost: the destination is never credited.
TransferPostDebitOnly(accts, counter, from_account_id, to_account_id, amount, description) ==
    LET timestamp == datetime_now
        out_transaction ==
            Transaction(generate_transaction_id(counter + 1), from_account_id,
                        amount, "transfer_out", timestamp,
                        <<description, " to ", to_account_id>>)
        from_account == DebitAccount(accts[from_account_id], amount, out_transaction)
    IN  Step(Put(accts, from_account_id, from_account), counter + 2,
             Result("transferred", from_account_id, NoName,
                    <<amount, from_account.balance, accts[to_account_id].balance>>))

\* Faulty variant of TransferPost: the clock is read once for each of the two
\* transactions, and has moved on between the readings.
TransferPostTwoClockReadings(accts, counter, from_account_id, to_account_id, amount, description) ==
    LET out_transaction ==
            Transaction(generate_transaction_id(counter + 1), from_account_id,
                        amount, "transfer_out", datetime_now,
                        <<description, " to ", to_account_id>>)
        in_transaction ==
            Transaction(generate_transaction_id(counter + 2), to_account_id,
                        amount, "transfer_in", datetime_now + 1,
                        <<description, " from ", from_account_id>>)
        from_account == DebitAccount(accts[from_account_id], amount, out_transaction)
        to_account == CreditAccount(accts[to_account_id], amount, in_transaction)
    IN  Step(Put(Put(accts, from_account_id, from_account), to_account_id, to_account),
             counter + 2,
             Result("transferred", from_account_id, NoName,
                    <<amount, from_account.balance, to_account.balance>>))

\* Lines 219-250 of transfer: the clock is read once, both transactions are
\* built, then both accounts are updated.
TransferPost(accts, counter, from_account_id, to_account_id, amount, description) ==
    LET timestamp == datetime_now
        out_transaction ==
            Transaction(generate_transaction_id(counter + 1), from_account_id,
                        amount, "transfer_out", timestamp,
                        <<description, " to ", to_account_id>>)
        in_transaction ==
            Transaction(generate_transaction_id(counter + 2), to_account_id,
                        amount, "transfer_in", timestamp,
                        <<description, " from ", from_account_id>>)
        from_account == DebitAccount(accts[from_account_id], amount, out_transaction)
        to_account == CreditAccount(accts[to_account_id], amount, in_transaction)
    IN  Step(Put(Put(accts, from_account_id, from_account), to_account_id, to_account),
             counter + 2,
             Result("transferred", from_account_id, NoName,
                    <<amount, from_account.balance, to_account.balance>>))

\* Faulty variant of transfer: the two transaction ids are drawn before the
\* funds check, so a refused transfer advances the counter.
transfer_ids_before_check(accts, counter, from_account_id, to_account_id, amount, description) ==
    IF from_account_id \notin DOMAIN accts
    THEN Step(accts, counter,
              Result("source_not_found", from_account_id, NoName, <<>>))
    ELSE IF to_account_id \notin DOMAIN accts
    THEN Step(accts, counter,
              Result("destination_not_found", to_account_id, NoName, <<>>))
    ELSE IF from_account_id = to_account_id
    THEN Step(accts, counter, Result("same_account", NoId, NoName, <<>>))
    ELSE IF InsufficientFunds(accts[from_account_id].balance, amount)
    THEN Step(accts, counter + 2,
              Result("insufficient_funds", NoId, NoName,
                     <<accts[from_account_id].balance>>))
    ELSE TransferPost(accts, counter, from_account_id, to_account_id, amount,
                      description)

\* Faulty variant of transfer: the funds are checked before the two ids are
\* compared.
transfer_funds_before_same_account(accts, counter, from_account_id, to_account_id, amount, description) ==
    IF from_account_id \notin DOMAIN accts
    THEN Step(accts, counter,
              Result("source_not_found", from_account_id, NoName, <<>>))
    ELSE IF to_account_id \notin DOMAIN accts
    THEN Step(accts, counter,
              Result("destination_not_found", to_account_id, NoName, <<>>))
    ELSE IF InsufficientFunds(accts[from_account_id].balance, amount)
    THEN Step(accts, counter,
              Result("insufficient_funds", NoId, NoName,
                     <<accts[from_account_id].balance>>))
    ELSE IF from_account_id = to_account_id
    THEN Step(accts, counter, Result("same_account", NoId, NoName, <<>>))
    ELSE TransferPost(accts, counter, from_account_id, to_account_id, amount,
                      description)

transfer(accts, counter, from_account_id, to_account_id, amount, description) ==
    IF from_account_id \notin DOMAIN accts
    THEN Step(accts, counter,
              Result("source_not_found", from_account_id, NoName, <<>>))
    ELSE IF to_account_id \notin DOMAIN accts
    THEN Step(accts, counter,
              Result("destination_not_found", to_account_id, NoName, <<>>))
    ELSE IF from_account_id = to_account_id
    THEN Step(accts, counter, Result("same_account", NoId, NoName, <<>>))
    ELSE IF InsufficientFunds(accts[from_account_id].balance, amount)
    THEN Step(accts, counter,
              Result("insufficient_funds", NoId, NoName,
                     <<accts[from_account_id].balance>>))
    ELSE TransferPost(accts, counter, from_account_id, to_account_id, amount,
                      description)

---------------------------------------------------------------------------
(* The state machine: one action per tool call *)

\* Account ids a caller may name: every id the model can issue, and one more
\* that is never issued.
AccountIds == {FormatId(<<"A", "C", "C">>, n) : n \in 1..(MaxAccounts + 1)}

\* What the calls moved on one account since it was created.
NewTally(initial_deposit) ==
    [initial |-> initial_deposit, deposited |-> 0, withdrawn |-> 0,
     received |-> 0, sent |-> 0]

NoTransaction == <<>>

\* A caller that is not inside a call, having made calls calls.
Idle(calls) ==
    [pc |-> "idle", account_id |-> NoId, to_account_id |-> NoId, amount |-> 0,
     transaction |-> NoTransaction, in_transaction |-> NoTransaction,
     calls |-> calls]

NoCallers == threads = [t \in Callers |-> Idle(0)]

\* TechModelOAuthProvider.__init__: the four stores are empty.
NewProvider ==
    /\ clients = <<>>
    /\ access_tokens = <<>>
    /\ refresh_tokens = <<>>
    /\ now = FirstInstant
    /\ registrations = {}
    /\ access_issues = {}
    /\ auth_codes = <<>>
    /\ redeemed = {}

Init ==
    /\ accounts = <<>>
    /\ transaction_counter = 0
    /\ issued = {}
    /\ tally = <<>>
    /\ creates = 0
    /\ NoCallers
    /\ NewProvider

CreateAccountCall(name, initial_deposit) ==
    LET step == create_account(accounts, transaction_counter, name, initial_deposit)
    IN  /\ Cardinality(DOMAIN step.accounts) <= MaxAccounts
        /\ step.counter <= MaxTxn
        /\ accounts' = step.accounts
        /\ transaction_counter' = step.counter
        /\ issued' = issued \cup {step.result.account_id}
        /\ tally' = Put(tally, step.result.account_id, NewTally(initial_deposit))

CreateAccount ==
    \E name \in Names, initial_deposit \in InitialDeposits :
        CreateAccountCall(name, initial_deposit)

GetAccountInfo ==
    \E account_id \in AccountIds :
        LET step == get_account_info(accounts, transaction_counter, account_id)
        IN  /\ accounts' = step.accounts
            /\ transaction_counter' = step.counter
            /\ UNCHANGED <<issued, tally>>

ListAccounts ==
    LET step == list_accounts(accounts, transaction_counter)
    IN  /\ accounts' = step.accounts
        /\ transaction_counter' = step.counter
        /\ UNCHANGED <<issued, tally>>

GetTransactionHistory ==
    \E account_id \in AccountIds, limit \in Limits :
        LET step == get_transaction_history(accounts, transaction_counter,
                                            account_id, limit)
        IN  /\ accounts' = step.accounts
            /\ transaction_counter' = step.counter
            /\ UNCHANGED <<issued, tally>>

ListAllAccounts ==
    LET step == list_all_accounts(accounts, transaction_counter)
    IN  /\ accounts' = step.accounts
        /\ transaction_counter' = step.counter
        /\ UNCHANGED <<issued, tally>>

GetAccountResource ==
    \E account_id \in AccountIds :
        LET step == get_account_resource(accounts, transaction_counter, account_id)
        IN  /\ accounts' = step.accounts
            /\ transaction_counter' = step.counter
            /\ UNCHANGED <<issued, tally>>

GetBalanceResource ==
    \E account_id \in AccountIds :
        LET step == get_balance_resource(accounts, transaction_counter, account_id)
        IN  /\ accounts' = step.accounts
            /\ transaction_counter' = step.counter
            /\ UNCHANGED <<issued, tally>>

CloseAccount ==
    \E account_id \in AccountIds :
        LET step == close_account(accounts, transaction_counter, account_id)
        IN  /\ accounts' = step.accounts
            /\ transaction_counter' = step.counter
            /\ tally' = IF step.result.status = "closed"
                        THEN Del(tally, account_id) ELSE tally
            /\ UNCHANGED issued

Deposit ==
    \E account_id \in AccountIds, amount \in Amounts :
        LET step == deposit(accounts, transaction_counter, account_id, amount,
                            "Deposit")
        IN  /\ step.counter <= MaxTxn
            /\ accounts' = step.accounts
            /\ transaction_counter' = step.counter
            /\ tally' = IF step.result.status = "deposited"
                        THEN [tally EXCEPT ![account_id].deposited = @ + amount]
                        ELSE tally
            /\ UNCHANGED issued

Withdraw ==
    \E account_id \in AccountIds, amount \in Amounts :
        LET step == withdraw(accounts, transaction_counter, account_id, amount,
                             "Withdrawal")
        IN  /\ step.counter <= MaxTxn
            /\ accounts' = step.accounts
            /\ transaction_counter' = step.counter
            /\ tally' = IF step.result.status = "withdrew"
                        THEN [tally EXCEPT ![account_id].withdrawn = @ + amount]
                        ELSE tally
            /\ UNCHANGED issued

\* A transfer call that leaves the counter no higher than max_counter.
TransferWithin(max_counter) ==
    \E from_account_id \in AccountIds, to_account_id \in AccountIds,
       amount \in Amounts :
        LET step == transfer(accounts, transaction_counter, from_account_id,
                             to_account_id, amount, "Transfer")
        IN  /\ step.counter <= max_counter
            /\ accounts' = step.accounts
            /\ transaction_counter' = step.counter
            /\ tally' = IF step.result.status = "transferred"
                        THEN [tally EXCEPT ![from_account_id].sent = @ + amount,
                                           ![to_account_id].received = @ + amount]
                        ELSE tally
            /\ UNCHANGED issued

Transfer == TransferWithin(MaxTxn)

\* The ledger with one caller: every call runs from its first line to its
\* return before the next call starts.
Next ==
    \/ CreateAccount /\ UNCHANGED <<creates, threads, oauth_vars>>
    \/ GetAccountInfo /\ UNCHANGED <<creates, threads, oauth_vars>>
    \/ ListAccounts /\ UNCHANGED <<creates, threads, oauth_vars>>
    \/ GetTransactionHistory /\ UNCHANGED <<creates, threads, oauth_vars>>
    \/ ListAllAccounts /\ UNCHANGED <<creates, threads, oauth_vars>>
    \/ GetAccountResource /\ UNCHANGED <<creates, threads, oauth_vars>>
    \/ GetBalanceResource /\ UNCHANGED <<creates, threads, oauth_vars>>
    \/ CloseAccount /\ UNCHANGED <<creates, threads, oauth_vars>>
    \/ Deposit /\ UNCHANGED <<creates, threads, oauth_vars>>
    \/ Withdraw /\ UNCHANGED <<creates, threads, oauth_vars>>
    \/ Transfer /\ UNCHANGED <<creates, threads, oauth_vars>>

Spec == Init /\ [][Next]_vars

---------------------------------------------------------------------------
(* The OAuth demo provider (TechModelOAuthProvider).  Its methods are       *)
(* coroutines that never await, so each runs from its first line to its     *)
(* return.  Identifiers are built from int(time.time() * 1000); base64 is   *)
(* one-to-one, so an encoded text is modelled as the text with a tag.       *)

Base64(text) == <<"base64", text>>

ClientId(time) == <<"client_", time>>
ClientSecret(client_id) == Base64(<<client_id, ":secret">>)
AccessToken(time) == Base64(<<"access_", time>>)
RefreshToken(time) == Base64(<<"refresh_", time>>)
AuthCode(time) == Base64(<<"code_", time>>)

create_client(clnts, time, client_name, redirect_uris, scopes) ==
    LET client_id == ClientId(time)
        client_secret == ClientSecret(client_id)
        record == [client_id |-> client_id, client_secret |-> client_secret,
                   client_name |-> client_name, redirect_uris |-> redirect_uris,
                   scopes |-> scopes, created_at |-> time]
    IN  [clients |-> Put(clnts, client_id, record),
         client_id |-> client_id, client_secret |-> client_secret]

\* dict.get: the record, or None.
get_client(clnts, client_id) ==
    IF client_id \in DOMAIN clnts
    THEN [found |-> TRUE, record |-> clnts[client_id]]
    ELSE [found |-> FALSE]

validate_client_secret(clnts, client_id, client_secret) ==
    LET client == get_client(clnts, client_id)
    IN  IF ~client.found THEN FALSE
        ELSE client.record.client_secret = client_secret

create_access_token(tokens, time, client_id, scopes, resource) ==
    LET access_token == AccessToken(time)
        expires_in == ExpiresIn
    IN  [access_tokens |->
             Put(tokens, access_token,
                 [client_id |-> client_id, scopes |-> scopes,
                  resource |-> resource, created_at |-> time,
                  expires_at |-> time + expires_in * MsPerSecond]),
         access_token |-> access_token, expires_in |-> expires_in]

create_refresh_token(tokens, time, client_id, scopes) ==
    LET refresh_token == RefreshToken(time)
    IN  [refresh_tokens |->
             Put(tokens, refresh_token,
                 [client_id |-> client_id, scopes |-> scopes,
                  created_at |-> time]),
         refresh_token |-> refresh_token]

load_access_token_expires_early(tokens, time, token) ==
    IF token \notin DOMAIN tokens THEN [found |-> FALSE]
    ELSE IF tokens[token].expires_at <= time THEN [found |-> FALSE]
    ELSE [found |-> TRUE, client_id |-> tokens[token].client_id,
          scopes |-> tokens[token].scopes, resource |-> tokens[token].resource,
          expires_at |-> tokens[token].expires_at]

\* None, or the TokenData built from the stored record.
load_access_token(tokens, time, token) ==
    IF token \notin DOMAIN tokens THEN [found |-> FALSE]
    ELSE IF tokens[token].expires_at < time THEN [found |-> FALSE]
    ELSE [found |-> TRUE, client_id |-> tokens[token].client_id,
          scopes |-> tokens[token].scopes, resource |-> tokens[token].resource,
          expires_at |-> tokens[token].expires_at]

revoke_token(access, refresh, token) ==
    IF token \in DOMAIN access
    THEN [access_tokens |-> Del(access, token), refresh_tokens |-> refresh,
          result |-> TRUE]
    ELSE IF token \in DOMAIN refresh
    THEN [access_tokens |-> access, refresh_tokens |-> Del(refresh, token),
          result |-> TRUE]
    ELSE [access_tokens |-> access, refresh_tokens |-> refresh, result |-> FALSE]

create_authorization_code(codes, time, client_id, redirect_uri, scopes, code_challenge) ==
    LET auth_code == AuthCode(time)
    IN  [auth_codes |->
             Put(codes, auth_code,
                 [client_id |-> client_id, redirect_uri |-> redirect_uri,
                  scopes |-> scopes, code_challenge |-> code_challenge,
                  created_at |-> time,
                  expires_at |-> time + CodeExpiresIn * MsPerSecond]),
         auth_code |-> auth_code]

validate_authorization_code_consumes_on_mismatch(codes, time, client_id, code, redirect_uri, code_verifier) ==
    IF code \notin DOMAIN codes THEN [found |-> FALSE, auth_codes |-> codes]
    ELSE IF codes[code].client_id # client_id
    THEN [found |-> FALSE, auth_codes |-> Del(codes, code)]
    ELSE IF codes[code].redirect_uri # redirect_uri
    THEN [found |-> FALSE, auth_codes |-> codes]
    ELSE IF codes[code].expires_at < time
    THEN [found |-> FALSE, auth_codes |-> codes]
    ELSE [found |-> TRUE, auth_codes |-> Del(codes, code), data |-> codes[code]]

validate_authorization_code_checks_verifier(codes, time, client_id, code, redirect_uri, code_verifier) ==
    IF code \notin DOMAIN codes THEN [found |-> FALSE, auth_codes |-> codes]
    ELSE IF codes[code].client_id # client_id
    THEN [found |-> FALSE, auth_codes |-> codes]
    ELSE IF codes[code].redirect_uri # redirect_uri
    THEN [found |-> FALSE, auth_codes |-> codes]
    ELSE IF codes[code].expires_at < time
    THEN [found |-> FALSE, auth_codes |-> codes]
    ELSE IF codes[code].code_challenge # "None" /\ code_verifier # "verifier"
    THEN [found |-> FALSE, auth_codes |-> codes]
    ELSE [found |-> TRUE, auth_codes |-> Del(codes, code), data |-> codes[code]]

\* None and the store as it was, or the stored record and the store without
\* the code.  code_verifier is a parameter the body never reads.
validate_authorization_code(codes, time, client_id, code, redirect_uri, code_verifier) ==
    LET None == [found |-> FALSE, auth_codes |-> codes]
    IN  IF code \notin DOMAIN codes THEN None
        ELSE IF codes[code].client_id # client_id THEN None
        ELSE IF codes[code].redirect_uri # redirect_uri THEN None
        ELSE IF codes[code].expires_at < time THEN None
        ELSE [found |-> TRUE, auth_codes |-> Del(codes, code),
              data |-> codes[code]]

\* The identifiers a call can be made with.
ClientIds == {ClientId(time) : time \in Instants} \cup ClientIdArgs
ClientSecrets == {ClientSecret(client_id) : client_id \in ClientIds}
Tokens ==
    {AccessToken(time) : time \in Instants}
        \cup {RefreshToken(time) : time \in Instants}
AuthCodes == {AuthCode(time) : time \in CodeInstants}

InitOAuth ==
    /\ accounts = <<>>
    /\ transaction_counter = 0
    /\ issued = {}
    /\ tally = <<>>
    /\ creates = 0
    /\ NoCallers
    /\ NewProvider

\* The clock moves on to a later instant.
TickWithin(instants) ==
    /\ \E later \in instants : later > now /\ now' = later
    /\ UNCHANGED <<clients, access_tokens, refresh_tokens, registrations,
                   access_issues, auth_codes, redeemed>>

Tick == TickWithin(Instants)

CreateClient ==
    \E client_name \in ClientNames :
        LET call == create_client(clients, now, client_name, RedirectUris, Scopes)
        IN  /\ Cardinality(registrations) < MaxIssued
            /\ clients' = call.clients
            /\ registrations' = registrations \cup
                   {[client_id |-> call.client_id,
                     client_secret |-> call.client_secret,
                     record |-> call.clients[call.client_id]]}
            /\ UNCHANGED <<access_tokens, refresh_tokens, now, access_issues,
                           auth_codes, redeemed>>

GetClient ==
    \E client_id \in ClientIds :
        /\ get_client(clients, client_id) \in
               {[found |-> FALSE]} \cup
               {[found |-> TRUE, record |-> clients[id]] : id \in DOMAIN clients}
        /\ UNCHANGED oauth_vars

ValidateClientSecret ==
    \E client_id \in ClientIds, client_secret \in ClientSecrets :
        /\ validate_client_secret(clients, client_id, client_secret) \in BOOLEAN
        /\ UNCHANGED oauth_vars

CreateAccessToken ==
    \E client_id \in ClientIdArgs :
        LET call == create_access_token(access_tokens, now, client_id, Scopes,
                                        NoResource)
        IN  /\ Cardinality(access_issues) < MaxIssued
            /\ access_tokens' = call.access_tokens
            /\ access_issues' = access_issues \cup
                   {[token |-> call.access_token, client_id |-> client_id,
                     expires_at |-> call.access_tokens[call.access_token].expires_at]}
            /\ UNCHANGED <<clients, refresh_tokens, now, registrations,
                           auth_codes, redeemed>>

CreateRefreshToken ==
    \E client_id \in ClientIdArgs :
        LET call == create_refresh_token(refresh_tokens, now, client_id, Scopes)
        IN  /\ Cardinality(DOMAIN call.refresh_tokens) <= MaxIssued
            /\ refresh_tokens' = call.refresh_tokens
            /\ UNCHANGED <<clients, access_tokens, now, registrations,
                           access_issues, auth_codes, redeemed>>

LoadAccessToken ==
    \E token \in Tokens :
        /\ load_access_token(access_tokens, now, token).found \in BOOLEAN
        /\ UNCHANGED oauth_vars

RevokeTokenCall(token) ==
    LET call == revoke_token(access_tokens, refresh_tokens, token)
    IN  /\ access_tokens' = call.access_tokens
        /\ refresh_tokens' = call.refresh_tokens
        /\ access_issues' = {issue \in access_issues : issue.token # token}
        /\ UNCHANGED <<clients, now, registrations, auth_codes, redeemed>>

RevokeToken == \E token \in Tokens : RevokeTokenCall(token)

NextOAuth ==
    \/ Tick /\ UNCHANGED <<ledger_vars, creates, threads>>
    \/ CreateClient /\ UNCHANGED <<ledger_vars, creates, threads>>
    \/ GetClient /\ UNCHANGED <<ledger_vars, creates, threads>>
    \/ ValidateClientSecret /\ UNCHANGED <<ledger_vars, creates, threads>>
    \/ CreateAccessToken /\ UNCHANGED <<ledger_vars, creates, threads>>
    \/ CreateRefreshToken /\ UNCHANGED <<ledger_vars, creates, threads>>
    \/ LoadAccessToken /\ UNCHANGED <<ledger_vars, creates, threads>>
    \/ RevokeToken /\ UNCHANGED <<ledger_vars, creates, threads>>

SpecOAuth == InitOAuth /\ [][NextOAuth]_vars

---------------------------------------------------------------------------
(* The authorization codes of the provider: codes are created and redeemed  *)
(* while the clock moves through their ten minutes of validity.             *)

CreateAuthorizationCode ==
    \E client_id \in ClientIdArgs, redirect_uri \in RedirectUriArgs, code_challenge \in CodeChallenges :
        LET call == create_authorization_code(auth_codes, now, client_id,
                                              redirect_uri, Scopes, code_challenge)
        IN  /\ Cardinality(DOMAIN call.auth_codes) <= MaxIssued
            /\ auth_codes' = call.auth_codes
            /\ UNCHANGED <<clients, access_tokens, refresh_tokens, now,
                           registrations, access_issues, redeemed>>

ValidateAuthorizationCode ==
    \E client_id \in ClientIdArgs, code \in AuthCodes, redirect_uri \in RedirectUriArgs, code_verifier \in CodeVerifiers :
        LET call == validate_authorization_code(auth_codes, now, client_id, code,
                                                redirect_uri, code_verifier)
        IN  /\ auth_codes' = call.auth_codes
            /\ redeemed' = IF call.found THEN redeemed \cup {code} ELSE redeemed
            /\ UNCHANGED <<clients, access_tokens, refresh_tokens, now,
                           registrations, access_issues>>

NextCodes ==
    \/ TickWithin(CodeInstants) /\ UNCHANGED <<ledger_vars, creates, threads>>
    \/ CreateAuthorizationCode /\ UNCHANGED <<ledger_vars, creates, threads>>
    \/ ValidateAuthorizationCode /\ UNCHANGED <<ledger_vars, creates, threads>>

SpecCodes == InitOAuth /\ [][NextCodes]_vars

---------------------------------------------------------------------------
(* The ledger while the clock moves: two accounts, and deposits,            *)
(* withdrawals and transfers made at different instants.                    *)

NextTime ==
    \/ Tick /\ UNCHANGED <<ledger_vars, creates, threads>>
    \/ Deposit /\ UNCHANGED <<creates, threads, oauth_vars>>
    \/ Withdraw /\ UNCHANGED <<creates, threads, oauth_vars>>
    \/ TransferWithin(MaxTimedTxn) /\ UNCHANGED <<creates, threads, oauth_vars>>

---------------------------------------------------------------------------
(* The ledger with its create_account calls counted.                       *)

NextCreates ==
    \/ /\ creates < MaxCreates
       /\ CreateAccount
       /\ creates' = creates + 1
       /\ UNCHANGED <<threads, oauth_vars>>
    \/ CloseAccount /\ UNCHANGED <<creates, threads, oauth_vars>>
    \/ Deposit /\ UNCHANGED <<creates, threads, oauth_vars>>
    \/ Withdraw /\ UNCHANGED <<creates, threads, oauth_vars>>
    \/ Transfer /\ UNCHANGED <<creates, threads, oauth_vars>>

SpecCreates == Init /\ [][NextCreates]_vars

---------------------------------------------------------------------------
(* Concurrent callers.  withdraw and transfer are plain functions over the  *)
(* module's globals and take no lock, so two callers running them at the    *)
(* same time interleave between statements.  Each step below is one         *)
(* statement (or one run of statements that touch no shared data) of        *)
(* withdraw or transfer, executed by one caller.  A caller holds the        *)
(* Account objects it looked up; no account is created or closed here, so   *)
(* the object a caller holds is the one stored under the id.                *)

\* The store after two create_account calls, and what they moved.
InitThreads ==
    /\ NewProvider
    /\ \E d1 \in Amounts, d2 \in Amounts :
           LET step1 == create_account(<<>>, 0, "Alice", d1)
               step2 == create_account(step1.accounts, step1.counter, "Alice", d2)
           IN  /\ accounts = step2.accounts
               /\ transaction_counter = step2.counter
               /\ issued = DOMAIN step2.accounts
               /\ tally = Put(Put(<<>>, step1.result.account_id, NewTally(d1)),
                              step2.result.account_id, NewTally(d2))
               /\ creates = 2
               /\ NoCallers

Returned(thread) == Idle(thread.calls + 1)

\* withdraw, lines 173-177: the lookup of the account.
WithdrawCall(t) ==
    /\ threads[t].pc = "idle"
    /\ threads[t].calls < MaxCalls
    /\ \E account_id \in AccountIds, amount \in Amounts :
           threads' = [threads EXCEPT ![t] =
               IF account_id \notin DOMAIN accounts
               THEN Returned(@)
               ELSE [@ EXCEPT !.pc = "withdraw_check",
                              !.account_id = account_id,
                              !.amount = amount]]
    /\ UNCHANGED <<accounts, transaction_counter, issued, tally, creates,
                   oauth_vars>>

\* withdraw, lines 179-180: the balance check.
WithdrawCheck(t) ==
    /\ threads[t].pc = "withdraw_check"
    /\ threads' = [threads EXCEPT ![t] =
           IF InsufficientFunds(accounts[threads[t].account_id].balance,
                                threads[t].amount)
           THEN Returned(@)
           ELSE [@ EXCEPT !.pc = "withdraw_transaction"]]
    /\ UNCHANGED <<accounts, transaction_counter, issued, tally, creates,
                   oauth_vars>>

\* withdraw, lines 182-189: the Transaction, with the next transaction id.
WithdrawTransaction(t) ==
    /\ threads[t].pc = "withdraw_transaction"
    /\ transaction_counter' = transaction_counter + 1
    /\ threads' = [threads EXCEPT ![t] =
           [@ EXCEPT !.pc = "withdraw_debit",
                     !.transaction =
                         Transaction(generate_transaction_id(transaction_counter'),
                                     threads[t].account_id, threads[t].amount, "withdrawal", datetime_now,
                                     <<"Withdrawal">>)]]
    /\ UNCHANGED <<accounts, issued, tally, creates,
                   oauth_vars>>

\* withdraw, line 191: account.balance -= withdrawal_amount.
WithdrawDebit(t) ==
    LET id == threads[t].account_id
        amount == threads[t].amount
    IN  /\ threads[t].pc = "withdraw_debit"
        /\ accounts' = [accounts EXCEPT ![id].balance = @ - amount]
        /\ tally' = [tally EXCEPT ![id].withdrawn = @ + amount]
        /\ threads' = [threads EXCEPT ![t].pc = "withdraw_append"]
        /\ UNCHANGED <<transaction_counter, issued, creates,
                   oauth_vars>>

\* withdraw, lines 192-194: the append to the log, and the return.
WithdrawAppend(t) ==
    LET id == threads[t].account_id
    IN  /\ threads[t].pc = "withdraw_append"
        /\ accounts' = [accounts EXCEPT ![id].transactions =
                            Append(@, threads[t].transaction)]
        /\ threads' = [threads EXCEPT ![t] = Returned(@)]
        /\ UNCHANGED <<transaction_counter, issued, tally, creates,
                   oauth_vars>>

\* transfer, lines 205-214: the three checks on the ids, and the lookups.
TransferCall(t) ==
    /\ threads[t].pc = "idle"
    /\ threads[t].calls < MaxCalls
    /\ \E from_account_id \in AccountIds, to_account_id \in AccountIds,
          amount \in Amounts :
           threads' = [threads EXCEPT ![t] =
               IF \/ from_account_id \notin DOMAIN accounts
                  \/ to_account_id \notin DOMAIN accounts
                  \/ from_account_id = to_account_id
               THEN Returned(@)
               ELSE [@ EXCEPT !.pc = "transfer_check",
                              !.account_id = from_account_id,
                              !.to_account_id = to_account_id,
                              !.amount = amount]]
    /\ UNCHANGED <<accounts, transaction_counter, issued, tally, creates,
                   oauth_vars>>

\* transfer, lines 216-217: the balance check.
TransferCheck(t) ==
    /\ threads[t].pc = "transfer_check"
    /\ threads' = [threads EXCEPT ![t] =
           IF InsufficientFunds(accounts[threads[t].account_id].balance,
                                threads[t].amount)
           THEN Returned(@)
           ELSE [@ EXCEPT !.pc = "transfer_out_transaction"]]
    /\ UNCHANGED <<accounts, transaction_counter, issued, tally, creates,
                   oauth_vars>>

\* transfer, lines 219-229: the outgoing Transaction.
TransferOutTransaction(t) ==
    /\ threads[t].pc = "transfer_out_transaction"
    /\ transaction_counter' = transaction_counter + 1
    /\ threads' = [threads EXCEPT ![t] =
           [@ EXCEPT !.pc = "transfer_in_transaction",
                     !.transaction =
                         Transaction(generate_transaction_id(transaction_counter'),
                                     threads[t].account_id, threads[t].amount, "transfer_out", datetime_now,
                                     <<"Transfer", " to ", threads[t].to_account_id>>)]]
    /\ UNCHANGED <<accounts, issued, tally, creates,
                   oauth_vars>>

\* transfer, lines 232-239: the incoming Transaction.
TransferInTransaction(t) ==
    /\ threads[t].pc = "transfer_in_transaction"
    /\ transaction_counter' = transaction_counter + 1
    /\ threads' = [threads EXCEPT ![t] =
           [@ EXCEPT !.pc = "transfer_debit",
                     !.in_transaction =
                         Transaction(generate_transaction_id(transaction_counter'),
                                     threads[t].to_account_id, threads[t].amount, "transfer_in", datetime_now,
                                     <<"Transfer", " from ", threads[t].account_id>>)]]
    /\ UNCHANGED <<accounts, issued, tally, creates,
                   oauth_vars>>

\* transfer, line 241: from_account.balance -= transfer_amount.
TransferDebit(t) ==
    LET id == threads[t].account_id
        amount == threads[t].amount
    IN  /\ threads[t].pc = "transfer_debit"
        /\ accounts' = [accounts EXCEPT ![id].balance = @ - amount]
        /\ tally' = [tally EXCEPT ![id].sent = @ + amount]
        /\ threads' = [threads EXCEPT ![t].pc = "transfer_credit"]
        /\ UNCHANGED <<transaction_counter, issued, creates,
                   oauth_vars>>

\* transfer, line 242: to_account.balance += transfer_amount.
TransferCredit(t) ==
    LET id == threads[t].to_account_id
        amount == threads[t].amount
    IN  /\ threads[t].pc = "transfer_credit"
        /\ accounts' = [accounts EXCEPT ![id].balance = @ + amount]
        /\ tally' = [tally EXCEPT ![id].received = @ + amount]
        /\ threads' = [threads EXCEPT ![t].pc = "transfer_append_out"]
        /\ UNCHANGED <<transaction_counter, issued, creates,
                   oauth_vars>>

\* transfer, line 243: the append to the source's log.
TransferAppendOut(t) ==
    LET id == threads[t].account_id
    IN  /\ threads[t].pc = "transfer_append_out"
        /\ accounts' = [accounts EXCEPT ![id].transactions =
                            Append(@, threads[t].transaction)]
        /\ threads' = [threads EXCEPT ![t].pc = "transfer_append_in"]
        /\ UNCHANGED <<transaction_counter, issued, tally, creates,
                   oauth_vars>>

\* transfer, lines 244-250: the append to the destination's log, and the
\* return.
TransferAppendIn(t) ==
    LET id == threads[t].to_account_id
    IN  /\ threads[t].pc = "transfer_append_in"
        /\ accounts' = [accounts EXCEPT ![id].transactions =
                            Append(@, threads[t].in_transaction)]
        /\ threads' = [threads EXCEPT ![t] = Returned(@)]
        /\ UNCHANGED <<transaction_counter, issued, tally, creates,
                   oauth_vars>>

NextThreads ==
    \E t \in Callers :
        \/ WithdrawCall(t)
        \/ WithdrawCheck(t)
        \/ WithdrawTransaction(t)
        \/ WithdrawDebit(t)
        \/ WithdrawAppend(t)
        \/ TransferCall(t)
        \/ TransferCheck(t)
        \/ TransferOutTransaction(t)
        \/ TransferInTransaction(t)
        \/ TransferDebit(t)
        \/ TransferCredit(t)
        \/ TransferAppendOut(t)
        \/ TransferAppendIn(t)

SpecThreads == InitThreads /\ [][NextThreads]_vars

SpecTime == InitThreads /\ [][NextTime]_vars

---------------------------------------------------------------------------
(* Properties of the ledger *)

\* The sign get_transaction_history prints: "+" for deposit and transfer_in,
\* "-" for withdrawal and transfer_out.
SignedAmount(transaction) ==
    IF transaction.transaction_type \in {"deposit", "transfer_in"}
    THEN transaction.amount
    ELSE 0 - transaction.amount

RECURSIVE SignedSum(_)
SignedSum(transactions) ==
    IF transactions = <<>> THEN 0
    ELSE SignedAmount(Head(transactions)) + SignedSum(Tail(transactions))

TypesIn(transactions) ==
    {transactions[i].transaction_type : i \in DOMAIN transactions}

\* C1: in every reachable state the balance of every open account equals the
\* sum of the signed amounts of the transactions in its own log (deposit and
\* transfer_in positive, withdrawal and transfer_out negative).
C1_BalanceEqualsSignedLog ==
    \A id \in DOMAIN accounts :
        accounts[id].balance = SignedSum(accounts[id].transactions)

\* A transfer has happened between an account opened with a deposit and
\* another account.
C1_Witness ==
    \E a \in DOMAIN accounts, b \in DOMAIN accounts :
        /\ {"deposit", "transfer_out"} \subseteq TypesIn(accounts[a].transactions)
        /\ "transfer_in" \in TypesIn(accounts[b].transactions)

\* C2: in every reachable state no account has a balance below zero.
C2_BalanceNonNegative ==
    \A id \in DOMAIN accounts : accounts[id].balance >= 0

\* An account was emptied to exactly zero by a withdrawal or an outgoing
\* transfer, while money is still held elsewhere or was held before.
C2_Witness ==
    \E id \in DOMAIN accounts :
        LET log == accounts[id].transactions
        IN  /\ accounts[id].balance = 0
            /\ log # <<>>
            /\ log[Len(log)].transaction_type \in {"withdrawal", "transfer_out"}

\* The ids that have been closed and not issued again: create_account has
\* returned them and they are not in the store.  "del _accounts[account_id]"
\* in close_account is the only statement that removes an id from the store.
ClosedIds == issued \ DOMAIN accounts

\* C3: account ids are never reused: no create_account call returns an id
\* that an earlier create_account call has returned, even when accounts
\* have been closed between the calls.
C3_AccountIdNeverReused ==
    [][\A name \in Names, initial_deposit \in InitialDeposits :
          CreateAccountCall(name, initial_deposit) =>
              create_account(accounts, transaction_counter, name,
                             initial_deposit).result.account_id \notin issued]_vars

\* C4: create_account allocates an id that is not in the store at the time of
\* the call and leaves every account that was open still open with the same
\* name, balance and transaction log; it only adds one new account.
C4_CreateOnlyAddsOneAccount ==
    [][\A name \in Names, initial_deposit \in InitialDeposits :
          CreateAccountCall(name, initial_deposit) =>
              LET id == create_account(accounts, transaction_counter, name,
                                       initial_deposit).result.account_id
              IN  /\ id \notin DOMAIN accounts
                  /\ DOMAIN accounts' = DOMAIN accounts \cup {id}
                  /\ \A other \in DOMAIN accounts :
                         accounts'[other] = accounts[other]]_vars

\* C5: the closed state of an account is terminal: once close_account(id) has
\* succeeded, id is absent from the store in every later state and
\* get_account_info(id) reports that it is not found; no later
\* create_account brings the id back.
C5_ClosedIsTerminal ==
    [][\A id \in ClosedIds :
          /\ id \notin DOMAIN accounts'
          /\ get_account_info(accounts', transaction_counter', id).result.status
                 = "not_found"]_vars

LastOf(transactions) == transactions[Len(transactions)]

C7_FailedTransferChangesNothing ==
    \A A \in AccountIds, B \in AccountIds, x \in Amounts :
        LET step == transfer(accounts, transaction_counter, A, B, x, "Transfer")
            status == step.result.status
        IN  /\ A \notin DOMAIN accounts => status = "source_not_found"
            /\ (A \in DOMAIN accounts /\ B \notin DOMAIN accounts)
                   => status = "destination_not_found"
            /\ (A \in DOMAIN accounts /\ A = B) => status = "same_account"
            /\ (A \in DOMAIN accounts /\ B \in DOMAIN accounts /\ A # B
                    /\ accounts[A].balance < x) => status = "insufficient_funds"
            /\ status # "transferred" =>
                   /\ step.accounts = accounts
                   /\ step.counter = transaction_counter

\* Transactions have been issued, and a transfer between two open accounts
\* is refused for lack of funds while a smaller one would go through.
C7_Witness ==
    /\ transaction_counter > 0
    /\ \E A \in DOMAIN accounts, B \in DOMAIN accounts, x \in Amounts, y \in Amounts :
           /\ transfer(accounts, transaction_counter, A, B, x,
                       "Transfer").result.status = "insufficient_funds"
           /\ transfer(accounts, transaction_counter, A, B, y,
                       "Transfer").result.status = "transferred"

\* C8: withdraw(id, amount) on an open account succeeds if and only if
\* amount <= balance (withdrawing the whole balance leaves zero); when
\* amount > balance it reports insufficient funds and the account's balance
\* and transaction log are unchanged.
C8_WithdrawIffCovered ==
    \A id \in DOMAIN accounts, amount \in Amounts :
        LET step == withdraw(accounts, transaction_counter, id, amount, "Withdrawal")
            balance == accounts[id].balance
        IN  /\ step.result.status = "withdrew" <=> amount <= balance
            /\ amount <= balance =>
                   step.accounts[id].balance = balance - amount
            /\ amount > balance =>
                   /\ step.result.status = "insufficient_funds"
                   /\ step.accounts[id].balance = balance
                   /\ step.accounts[id].transactions = accounts[id].transactions

\* An account's whole balance has been withdrawn, so that any further
\* withdrawal from it exceeds the balance.
C8_Witness ==
    \E id \in DOMAIN accounts :
        /\ accounts[id].balance = 0
        /\ accounts[id].transactions # <<>>
        /\ LastOf(accounts[id].transactions).transaction_type = "withdrawal"
        /\ LastOf(accounts[id].transactions).amount = tally[id].initial

\* C9: close_account(id) on an existing account succeeds if and only if its
\* balance is exactly zero; when it is refused for a non-zero balance the
\* store is unchanged, and right after a successful close
\* get_account_info(id) reports that the account is not found.
C9_CloseIffZeroBalance ==
    \A id \in DOMAIN accounts :
        LET step == close_account(accounts, transaction_counter, id)
        IN  /\ step.result.status = "closed" <=> accounts[id].balance = 0
            /\ accounts[id].balance # 0 =>
                   /\ step.result.status = "non_zero_balance"
                   /\ step.accounts = accounts
                   /\ step.counter = transaction_counter
            /\ accounts[id].balance = 0 =>
                   /\ id \notin DOMAIN step.accounts
                   /\ get_account_info(step.accounts, step.counter,
                                       id).result.status = "not_found"

\* An account has been closed, and an open account holds money, so that
\* closing it is refused.
C9_Witness ==
    /\ ClosedIds # {}
    /\ \E id \in DOMAIN accounts : accounts[id].balance > 0

\* C10: for every sequence of deposit and withdraw calls on one open account
\* (an account no transfer has touched), the balance equals the initial
\* deposit plus the sum of all deposited amounts minus the sum of all
\* successfully withdrawn amounts.
C10_BalanceIsDepositsMinusWithdrawals ==
    \A id \in DOMAIN accounts :
        (tally[id].received = 0 /\ tally[id].sent = 0) =>
            accounts[id].balance =
                tally[id].initial + tally[id].deposited - tally[id].withdrawn

\* An account opened with a deposit has since been deposited into and
\* withdrawn from, and no transfer has touched it.
C10_Witness ==
    \E id \in DOMAIN accounts :
        /\ tally[id].initial > 0
        /\ tally[id].deposited > 0
        /\ tally[id].withdrawn > 0
        /\ tally[id].received = 0 /\ tally[id].sent = 0

\* All transactions held in a store, and the number in a transaction id:
\* the n with f"TXN{n:06d}" equal to the id.
AllTransactions(accts) ==
    UNION {{accts[id].transactions[i] : i \in DOMAIN accts[id].transactions} :
           id \in DOMAIN accts}

TxnIdsIn(accts) == {t.id : t \in AllTransactions(accts)}

TxnCount(accts) ==
    LET RECURSIVE Total(_)
        Total(ids) == IF ids = {} THEN 0
                      ELSE LET id == CHOOSE x \in ids : TRUE
                           IN  Len(accts[id].transactions) + Total(ids \ {id})
    IN  Total(DOMAIN accts)

\* f"TXN{n:06d}" for the numbers the counter takes, and the number in a
\* transaction id.
TransactionIdOf ==
    [n \in 0..(MaxTimedTxn + 2) |-> FormatId(<<"T", "X", "N">>, n)]

TxnNumber(id) == CHOOSE n \in DOMAIN TransactionIdOf : TransactionIdOf[n] = id

TxnNumbersIn(accts) == {TxnNumber(id) : id \in TxnIdsIn(accts)}

IsPrefix(s, t) == Len(s) <= Len(t) /\ SubSeq(t, 1, Len(s)) = s

\* C12: transaction ids are globally unique and strictly increasing: every
\* transaction a call creates, on any account, receives an id drawn from the
\* one global counter that is larger than every id issued before it, also
\* after accounts have been closed.  A call that changes the ledger leaves
\* the counter no lower than it was, the ids it adds carry exactly the
\* numbers the counter has passed in that call, every id in the store
\* carries a number in 1..transaction_counter, and no two transactions in
\* the store share an id.
C12_TransactionIdsIncrease ==
    [][\/ UNCHANGED <<accounts, transaction_counter>>
       \/ LET before == TxnNumbersIn(accounts)
              after == TxnNumbersIn(accounts')
          IN  /\ transaction_counter' >= transaction_counter
              /\ after \ before = (transaction_counter + 1)..transaction_counter'
              /\ after \subseteq 1..transaction_counter'
              /\ Cardinality(TxnIdsIn(accounts')) = TxnCount(accounts')]_vars

\* The third transaction id was issued to an account that is alone in the
\* store and holds no other transaction: the first two ids went to
\* transactions that a close has since removed.
C12_Witness ==
    /\ transaction_counter = 3
    /\ ClosedIds # {}
    /\ \E id \in DOMAIN accounts :
           /\ Len(accounts[id].transactions) = 1
           /\ TxnNumber(accounts[id].transactions[1].id) = 3

\* C13: each account's transaction log is append-only while the account is
\* in the store: across any single operation, the log of an account id
\* present before and after the operation has the earlier log as a prefix;
\* transactions disappear only through close_account of their account.
C13_LogsAppendOnly ==
    [][\A id \in DOMAIN accounts \cap DOMAIN accounts' :
           IsPrefix(accounts[id].transactions, accounts'[id].transactions)]_vars

\* C14: create_account(name, d) creates an account whose balance is d and
\* whose log holds exactly one deposit transaction of amount d described as
\* "Initial deposit" when d > 0, and is empty when d = 0, and then the
\* transaction counter is not advanced.
C14_CreateSetsBalanceAndLog ==
    \A name \in Names, d \in InitialDeposits :
        LET step == create_account(accounts, transaction_counter, name, d)
            id == step.result.account_id
            log == step.accounts[id].transactions
        IN  /\ step.result.status = "created"
            /\ id \in DOMAIN step.accounts
            /\ step.accounts[id].id = id
            /\ step.accounts[id].name = name
            /\ step.accounts[id].balance = d
            /\ d > 0 =>
                   /\ Len(log) = 1
                   /\ log[1].transaction_type = "deposit"
                   /\ log[1].amount = d
                   /\ log[1].account_id = id
                   /\ log[1].description = <<"Initial deposit">>
                   /\ step.counter = transaction_counter + 1
            /\ d = 0 =>
                   /\ log = <<>>
                   /\ step.counter = transaction_counter

\* One account was created with a deposit and another with none, after
\* which the transaction counter stands at one.
C14_Witness ==
    /\ transaction_counter = 1
    /\ \E a \in DOMAIN accounts, b \in DOMAIN accounts :
           /\ tally[a].initial > 0
           /\ accounts[a].transactions # <<>>
           /\ accounts[a].transactions[1].description = <<"Initial deposit">>
           /\ tally[b].initial = 0
           /\ accounts[b].transactions = <<>>

\* C16: deposit(id, amount) on an open account always succeeds: it appends
\* exactly one deposit transaction of that amount to the account's log,
\* increases its balance by exactly amount, reports the new balance, and
\* changes no other account.
C16_DepositAlwaysSucceeds ==
    \A id \in DOMAIN accounts, amount \in Amounts :
        LET step == deposit(accounts, transaction_counter, id, amount, "Deposit")
            log == step.accounts[id].transactions
        IN  /\ step.result.status = "deposited"
            /\ DOMAIN step.accounts = DOMAIN accounts
            /\ step.accounts[id].balance = accounts[id].balance + amount
            /\ step.accounts[id].name = accounts[id].name
            /\ Len(log) = Len(accounts[id].transactions) + 1
            /\ IsPrefix(accounts[id].transactions, log)
            /\ LastOf(log).transaction_type = "deposit"
            /\ LastOf(log).amount = amount
            /\ LastOf(log).account_id = id
            /\ step.result.reported = <<amount, accounts[id].balance + amount>>
            /\ \A other \in DOMAIN accounts \ {id} :
                   step.accounts[other] = accounts[other]

\* A deposit call has been made on one of two open accounts.
C16_Witness ==
    \E a \in DOMAIN accounts, b \in DOMAIN accounts :
        /\ a # b
        /\ tally[a].deposited > 0
        /\ LastOf(accounts[a].transactions).description = <<"Deposit">>

\* C19: get_transaction_history(id, limit) on an account with n
\* transactions returns exactly min(limit, n) entries, which are the last
\* min(limit, n) transactions of the log listed newest first, with sign + for
\* deposit and transfer_in and sign - for withdrawal and transfer_out.
C19_HistoryIsLastEntriesNewestFirst ==
    \A id \in DOMAIN accounts, limit \in Limits :
        LET log == accounts[id].transactions
            n == Len(log)
            k == IF limit < n THEN limit ELSE n
            result == get_transaction_history(accounts, transaction_counter,
                                              id, limit).result
        IN  /\ k = 0 => result.status = "no_transactions"
            /\ k > 0 =>
                   /\ result.status = "history"
                   /\ Len(result.lines) = k
                   /\ \A i \in 1..k :
                          LET transaction == log[n + 1 - i]
                          IN  /\ result.lines[i].amount = transaction.amount
                              /\ result.lines[i].description = transaction.description
                              /\ transaction.transaction_type \in {"deposit", "transfer_in"}
                                     => result.lines[i].sign = "+"
                              /\ transaction.transaction_type \in {"withdrawal", "transfer_out"}
                                     => result.lines[i].sign = "-"

\* An account holds three transactions, the newest a withdrawal, and a history
\* of limit two reports the withdrawal first and the transaction before it
\* second.
C19_Witness ==
    \E id \in DOMAIN accounts :
        LET log == accounts[id].transactions
            result == get_transaction_history(accounts, transaction_counter,
                                              id, 2).result
        IN  /\ Len(log) = 3
            /\ log[3].transaction_type = "withdrawal"
            /\ log[2].transaction_type = "deposit"
            /\ result.status = "history"
            /\ Len(result.lines) = 2
            /\ result.lines[1].sign = "-"
            /\ result.lines[2].sign = "+"

\* C20: the read-only operations get_account_info, list_accounts and
\* get_transaction_history, and the bank:// resources, leave the whole store
\* unchanged: the set of accounts, every balance, every transaction log and
\* the transaction counter.
C20_ReadOnlyOperationsChangeNothing ==
    LET Same(step) == /\ step.accounts = accounts
                      /\ step.counter = transaction_counter
    IN  /\ Same(list_accounts(accounts, transaction_counter))
        /\ Same(list_all_accounts(accounts, transaction_counter))
        /\ \A id \in AccountIds :
               /\ Same(get_account_info(accounts, transaction_counter, id))
               /\ Same(get_account_resource(accounts, transaction_counter, id))
               /\ Same(get_balance_resource(accounts, transaction_counter, id))
               /\ \A limit \in Limits :
                      Same(get_transaction_history(accounts, transaction_counter,
                                                   id, limit))

\* The store holds two accounts, one with money and transactions to report,
\* and an id that is not in the store; the reads report them.
C20_Witness ==
    /\ transaction_counter > 0
    /\ AccountIds \ DOMAIN accounts # {}
    /\ Cardinality(list_accounts(accounts, transaction_counter).result.lines) = 2
    /\ \E id \in DOMAIN accounts :
           /\ get_transaction_history(accounts, transaction_counter, id, 10).result.status = "history"
           /\ get_account_info(accounts, transaction_counter, id).result.reported[1] > 0
           /\ get_balance_resource(accounts, transaction_counter, id).result.reported[1] > 0

\* The money the lines of an account listing add up to.
RECURSIVE LinesTotal(_)
LinesTotal(lines) ==
    IF lines = {} THEN 0
    ELSE LET line == CHOOSE l \in lines : TRUE
         IN  line[3] + LinesTotal(lines \ {line})

\* The money the calls have put into the bank and taken out of it as cash.
RECURSIVE CashTotal(_, _)
CashTotal(tallies, ids) ==
    IF ids = {} THEN 0
    ELSE LET id == CHOOSE x \in ids : TRUE
         IN  tallies[id].initial + tallies[id].deposited - tallies[id].withdrawn
             + CashTotal(tallies, ids \ {id})

\* C11: all mutating operations appear atomic to concurrent callers: no
\* interleaving of a balance check with a concurrent withdrawal or transfer
\* on the same account lets both succeed and drive the balance negative, and
\* no interleaving lets a caller observe a transfer with the source debited
\* but the destination not yet credited: whenever a caller is free to make a
\* call, what list_accounts would report to it adds up to the money paid in
\* minus the money paid out.
C11_OperationsAppearAtomic ==
    /\ \A id \in DOMAIN accounts : accounts[id].balance >= 0
    /\ (\E t \in Callers : threads[t].pc = "idle" /\ threads[t].calls < MaxCalls)
           => LinesTotal(list_accounts(accounts, transaction_counter).result.lines)
                  = CashTotal(tally, DOMAIN tally)

\* C15: account ids are issued sequentially in creation order: starting from
\* an empty store, the n-th create_account call returns the id ACC followed
\* by n zero-padded to six digits.
C15_AccountIdsSequential ==
    \A name \in Names, d \in InitialDeposits :
        create_account(accounts, transaction_counter, name, d).result.account_id
            = FormatId(<<"A", "C", "C">>, creates + 1)

\* C17: in the OAuth demo provider, after revoke_token(t) returns True for an
\* issued access token t, load_access_token(t) returns None; before
\* revocation and before expiry, load_access_token(t) returns data whose
\* client_id is the client the token was issued to.
C17_AccessTokenLifecycle ==
    /\ \A issue \in access_issues :
           now <= issue.expires_at =>
               LET data == load_access_token(access_tokens, now, issue.token)
               IN  IF data.found THEN data.client_id = issue.client_id ELSE FALSE
    /\ \A token \in DOMAIN access_tokens :
           LET call == revoke_token(access_tokens, refresh_tokens, token)
           IN  /\ call.result
               /\ ~load_access_token(call.access_tokens, now, token).found

\* C18: in the OAuth demo provider, after create_client returns
\* (client_id, client_secret), get_client(client_id) returns that client's
\* record, and validate_client_secret(c, s) is True if and only if c is a
\* registered client and s equals the secret issued to c.
C18_ClientRegistration ==
    /\ \A registration \in registrations :
           LET client == get_client(clients, registration.client_id)
           IN  IF client.found THEN client.record = registration.record
               ELSE FALSE
    /\ \A client_id \in ClientIds, client_secret \in ClientSecrets :
           validate_client_secret(clients, client_id, client_secret)
               <=> /\ client_id \in DOMAIN clients
                   /\ \E registration \in registrations :
                          /\ registration.client_id = client_id
                          /\ registration.client_secret = client_secret

\* C21: every operation addressed to an account id that is not in the store
\* (get_account_info, close_account, deposit, withdraw,
\* get_transaction_history) returns a not-found outcome and leaves the store
\* and the transaction counter unchanged: a failed deposit or withdraw uses up
\* no transaction id.
C21_UnknownAccountChangesNothing ==
    \A id \in AccountIds \ DOMAIN accounts :
        LET NotFound(step) == /\ step.result.status = "not_found"
                              /\ step.accounts = accounts
                              /\ step.counter = transaction_counter
        IN  /\ NotFound(get_account_info(accounts, transaction_counter, id))
            /\ NotFound(close_account(accounts, transaction_counter, id))
            /\ \A amount \in Amounts :
                   /\ NotFound(deposit(accounts, transaction_counter, id,
                                       amount, "Deposit"))
                   /\ NotFound(withdraw(accounts, transaction_counter, id,
                                        amount, "Withdrawal"))
            /\ \A limit \in Limits :
                   NotFound(get_transaction_history(accounts, transaction_counter,
                                                    id, limit))

\* The store holds an account with money, the counter has advanced, and one
\* id was closed and another was never issued: both are not in the store.
C21_Witness ==
    /\ transaction_counter > 0
    /\ \E id \in DOMAIN accounts : accounts[id].balance > 0
    /\ ClosedIds # {}
    /\ AccountIds \ (issued \cup DOMAIN accounts) # {}

\* The failure of transfer that the order of its checks selects.
ExpectedTransferFailure(from_account_id, to_account_id, amount) ==
    IF from_account_id \notin DOMAIN accounts THEN "source_not_found"
    ELSE IF to_account_id \notin DOMAIN accounts THEN "destination_not_found"
    ELSE IF from_account_id = to_account_id THEN "same_account"
    ELSE IF accounts[from_account_id].balance < amount THEN "insufficient_funds"
    ELSE "transferred"

\* C22: transfer evaluates its failure conditions in a fixed order: source
\* absent, then destination absent, then source equals destination, then
\* insufficient funds.  So transfer(id, id, x) on an open account fails with
\* same_account whatever x and the balance are, and transfer(id, id, x) with
\* id absent fails with not-found for the source.
C22_TransferChecksInOrder ==
    \A from_account_id \in AccountIds, to_account_id \in AccountIds,
       amount \in Amounts :
        LET result == transfer(accounts, transaction_counter, from_account_id,
                               to_account_id, amount, "Transfer").result
        IN  /\ result.status =
                   ExpectedTransferFailure(from_account_id, to_account_id, amount)
            /\ from_account_id = to_account_id =>
                   result.status = IF from_account_id \in DOMAIN accounts
                                   THEN "same_account" ELSE "source_not_found"

\* An open account holds less than an amount a transfer can name, so a
\* transfer from it to itself meets both the same-account and the funds
\* condition; another id is absent.
C22_Witness ==
    /\ \E id \in DOMAIN accounts, amount \in Amounts :
           /\ accounts[id].transactions # <<>>
           /\ accounts[id].balance < amount
    /\ AccountIds \ DOMAIN accounts # {}

\* The sum of the balances of the accounts in a store.
RECURSIVE TotalBalance(_)
TotalBalance(accts) ==
    IF DOMAIN accts = {} THEN 0
    ELSE LET id == CHOOSE x \in DOMAIN accts : TRUE
         IN  accts[id].balance + TotalBalance(Del(accts, id))

\* C26: money is conserved across the store: the sum of the balances of all
\* open accounts equals all initial deposits plus all successful deposits
\* minus all successful withdrawals.  From the empty store, that is: every
\* create_account changes the sum by exactly the initial deposit, every
\* successful deposit by the amount, every successful withdrawal by minus the
\* amount, and transfer, close_account and every failed call leave it
\* unchanged.
C26_MoneyConserved ==
    LET total == TotalBalance(accounts)
        After(step) == TotalBalance(step.accounts)
    IN  /\ \A name \in Names, d \in InitialDeposits :
               After(create_account(accounts, transaction_counter, name, d))
                   = total + d
        /\ \A id \in AccountIds, amount \in Amounts :
               LET paid == deposit(accounts, transaction_counter, id, amount,
                                   "Deposit")
                   drawn == withdraw(accounts, transaction_counter, id, amount,
                                     "Withdrawal")
               IN  /\ After(paid) = total + IF paid.result.status = "deposited"
                                            THEN amount ELSE 0
                   /\ After(drawn) = total - IF drawn.result.status = "withdrew"
                                             THEN amount ELSE 0
        /\ \A id \in AccountIds :
               After(close_account(accounts, transaction_counter, id)) = total
        /\ \A from_account_id \in AccountIds, to_account_id \in AccountIds,
              amount \in Amounts :
               After(transfer(accounts, transaction_counter, from_account_id,
                              to_account_id, amount, "Transfer")) = total

\* C27: every open account can always be closed: for an open account with
\* balance b, withdraw(id, b) (skipped when b = 0) followed by
\* close_account(id) succeeds and removes the account.
C27_OpenAccountCanBeClosed ==
    \A id \in DOMAIN accounts :
        LET b == accounts[id].balance
            drawn == withdraw(accounts, transaction_counter, id, b, "Withdrawal")
            emptied == IF b = 0
                       THEN Step(accounts, transaction_counter,
                                 Result("skipped", id, NoName, <<>>))
                       ELSE drawn
            closed == close_account(emptied.accounts, emptied.counter, id)
        IN  /\ b # 0 => drawn.result.status = "withdrew"
            /\ emptied.accounts[id].balance = 0
            /\ closed.result.status = "closed"
            /\ id \notin DOMAIN closed.accounts
            /\ \A other \in DOMAIN accounts \ {id} :
                   closed.accounts[other] = accounts[other]

\* An account that was opened with money has had all of it withdrawn and has
\* been closed, while another account with money is open.
C27_Witness ==
    /\ ClosedIds # {}
    /\ transaction_counter >= 2
    /\ \E id \in DOMAIN accounts : accounts[id].balance > 0

\* C23: the two transactions produced by one successful transfer carry the
\* same timestamp and consecutive transaction ids (the transfer_out id is
\* exactly one less than the transfer_in id), and each description names the
\* counterpart account: the transfer_out names the destination id, the
\* transfer_in the source id.  Stated of what transfer appends, and of every
\* transfer_out in the store and the transfer_in that belongs to it.
C23_TransferPairSharesTimestamp ==
    /\ \A from_account_id \in DOMAIN accounts, to_account_id \in DOMAIN accounts,
          amount \in Amounts :
           LET step == transfer(accounts, transaction_counter, from_account_id,
                                to_account_id, amount, "Transfer")
               out == LastOf(step.accounts[from_account_id].transactions)
               in == LastOf(step.accounts[to_account_id].transactions)
           IN  step.result.status = "transferred" =>
                   /\ out.transaction_type = "transfer_out"
                   /\ in.transaction_type = "transfer_in"
                   /\ out.timestamp = in.timestamp
                   /\ out.timestamp = now
                   /\ TxnNumber(out.id) = transaction_counter + 1
                   /\ TxnNumber(in.id) = TxnNumber(out.id) + 1
                   /\ out.description = <<"Transfer", " to ", to_account_id>>
                   /\ in.description = <<"Transfer", " from ", from_account_id>>
    /\ \A out \in AllTransactions(accounts) :
           out.transaction_type = "transfer_out" =>
               \E in \in AllTransactions(accounts) :
                   /\ in.transaction_type = "transfer_in"
                   /\ in.timestamp = out.timestamp
                   /\ in.amount = out.amount
                   /\ TxnNumber(in.id) = TxnNumber(out.id) + 1
                   /\ out.description = <<"Transfer", " to ", in.account_id>>
                   /\ in.description = <<"Transfer", " from ", out.account_id>>

\* Two transfers were made at different instants, in opposite directions.
C23_Witness ==
    \E first \in AllTransactions(accounts), second \in AllTransactions(accounts) :
        /\ first.transaction_type = "transfer_out"
        /\ second.transaction_type = "transfer_out"
        /\ first.timestamp < second.timestamp
        /\ first.account_id # second.account_id

\* C24: an authorization code is usable once: after
\* validate_authorization_code has succeeded for a code, every later
\* validate_authorization_code call with that code returns None.
C24_CodeUsableOnce ==
    \A code \in redeemed :
        \A client_id \in ClientIdArgs, redirect_uri \in RedirectUriArgs, code_verifier \in CodeVerifiers :
            ~validate_authorization_code(auth_codes, now, client_id, code,
                                         redirect_uri, code_verifier).found

Expired(token) ==
    /\ token \in DOMAIN access_tokens
    /\ access_tokens[token].expires_at < now

C28_FailedValidationKeepsCodes ==
    \A client_id \in ClientIdArgs, code \in AuthCodes, redirect_uri \in RedirectUriArgs, code_verifier \in CodeVerifiers :
        LET call == validate_authorization_code(auth_codes, now, client_id, code,
                                                redirect_uri, code_verifier)
            Unknown == code \notin DOMAIN auth_codes
            Mismatch == \/ auth_codes[code].client_id # client_id
                        \/ auth_codes[code].redirect_uri # redirect_uri
            TooLate == auth_codes[code].expires_at < now
        IN  /\ (Unknown \/ Mismatch \/ TooLate) <=> ~call.found
            /\ ~call.found => call.auth_codes = auth_codes
            /\ (~Unknown /\ Mismatch) =>
                   \A later \in CodeInstants :
                       (now <= later /\ later <= auth_codes[code].expires_at) =>
                           validate_authorization_code(
                               call.auth_codes, later, auth_codes[code].client_id,
                               code, auth_codes[code].redirect_uri,
                               code_verifier).found

C28_Witness ==
    \E code \in DOMAIN auth_codes :
        /\ auth_codes[code].created_at < now
        /\ now <= auth_codes[code].expires_at
        /\ redeemed # {}

\* C29: identifiers issued by the provider are unique: a create_client,
\* create_access_token, create_refresh_token or create_authorization_code
\* call returns an identifier that no record is stored under, so that no
\* record is overwritten by a later issue, and no access token is on record
\* as issued to two clients.
C29_IdentifiersUnique ==
    /\ \A client_name \in ClientNames :
           create_client(clients, now, client_name, RedirectUris, Scopes).client_id
               \notin DOMAIN clients
    /\ \A client_id \in ClientIdArgs :
           /\ create_access_token(access_tokens, now, client_id, Scopes,
                                  NoResource).access_token
                  \notin DOMAIN access_tokens
           /\ create_refresh_token(refresh_tokens, now, client_id,
                                   Scopes).refresh_token
                  \notin DOMAIN refresh_tokens
           /\ \A redirect_uri \in RedirectUriArgs, code_challenge \in CodeChallenges :
                  create_authorization_code(auth_codes, now, client_id,
                                            redirect_uri, Scopes,
                                            code_challenge).auth_code
                      \notin DOMAIN auth_codes
    /\ \A first \in access_issues, second \in access_issues :
           first.token = second.token => first.client_id = second.client_id

\* C30: the outcome of validate_authorization_code does not depend on
\* code_verifier: two calls that differ only in code_verifier, made in the
\* same provider state, return the same result and leave the same state,
\* also for a code created with a code_challenge.
C30_VerifierIgnored ==
    \A client_id \in ClientIdArgs, code \in AuthCodes, redirect_uri \in RedirectUriArgs :
        \A first \in CodeVerifiers, second \in CodeVerifiers :
            validate_authorization_code(auth_codes, now, client_id, code,
                                        redirect_uri, first)
                = validate_authorization_code(auth_codes, now, client_id, code,
                                              redirect_uri, second)

C30_Witness ==
    \E code \in DOMAIN auth_codes :
        /\ auth_codes[code].code_challenge = "challenge"
        /\ now <= auth_codes[code].expires_at
        /\ validate_authorization_code(auth_codes, now, auth_codes[code].client_id,
                                       code, auth_codes[code].redirect_uri,
                                       "other verifier").found

=============================================================================
